---- MODULE Spec2Model ----
(***************************************************************************)
(* A model of rkaf-rs: the RC4 stream-cipher engine (src/src/rc4.rs), the  *)
(* SquashFS superblock decoder and decrypt_header (src/src/main.rs), and   *)
(* the transform / compression hooks built on the engine                   *)
(* (src/src/transformer.rs, src/src/compressor.rs).                        *)
(*                                                                         *)
(* Bytes are integers 0..255; a buffer is a sequence of bytes (1-based, so *)
(* the source's data[k] is data[k+1] here).  The engine's 256-entry state  *)
(* array is a function over 0..255, as the source indexes it.              *)
(***************************************************************************)
EXTENDS Integers, Sequences, FiniteSets, TLC

VARIABLES
    key,      \* the key the engines of the RC4 scenario are created with
    data,     \* the byte sequence B the scenario works on
    rc4,      \* a live engine fed B in chunks: [state, index_i, index_j]
    pos,      \* how many bytes of B the live engine has consumed
    out,      \* the live engine's output so far, chunks concatenated
    calls,    \* how many process calls the live engine has served
    full,     \* one process call over the whole of B on another engine
    dec,      \* full's output processed again by a third fresh engine
    skip,     \* a fourth engine: skip n keystream bytes, decrypt a suffix
    hfields,  \* the header fields the input container was produced from
    hkey,     \* the key given to decrypt_header
    hfile,    \* the bytes of the input file
    hres,     \* how decrypt_header ended: none yet, ok, err or panic
    hout,     \* the output file: whether written, and its bytes
    RC4,      \* the engine all transformers share (static mut RC4)
    hcall,    \* the last hook call of the single-threaded run, with its result
    threads   \* the hook invocation each worker thread is making

engineVars == <<key, data, rc4, pos, out, calls, full, dec, skip>>

headerVars == <<hfields, hkey, hfile, hres, hout>>

hookVars == <<RC4, hcall, threads>>

vars == <<engineVars, headerVars, hookVars>>

-----------------------------------------------------------------------------
(* Bounds of the model.                                                    *)

\* Longest enumerated input buffer (every content over Bytes up to it).
MaxLen == 3

\* The most process calls one live engine serves between two inits.
MaxCalls == 4

\* The byte values input buffers are built from.
Bytes == {0, 255}

-----------------------------------------------------------------------------
(* Byte arithmetic.                                                        *)

Byte == 0..255

\* u8::wrapping_add
WrappingAdd(a, b) == (a + b) % 256

\* The bitwise exclusive or of two bytes, bit by bit (the ^ of `*byte ^= k`).
RECURSIVE XorBits(_, _, _)
XorBits(a, b, n) ==
    IF n = 0 THEN 0
    ELSE (((a % 2) + (b % 2)) % 2) + (2 * XorBits(a \div 2, b \div 2, n - 1))

\* A plausible slip: masking by addition instead of exclusive or.
XorAsAdd(a, b) == (a + b) % 256

Xor(a, b) == XorBits(a, b, 8)

\* slice::swap on the state array, one-sided (a plausible slip).
SwapOneSided(s, a, b) == [s EXCEPT ![a] = s[b]]

\* slice::swap on the state array.
Swap(s, a, b) == [s EXCEPT ![a] = s[b], ![b] = s[a]]

-----------------------------------------------------------------------------
(* The RC4 engine (src/src/rc4.rs).                                        *)

\* The struct literal of RC4::new and of the static in transformer.rs.
ZeroEngine == [state |-> [i \in Byte |-> 0], index_i |-> 0, index_j |-> 0]

\* state[i] = i as u8
IdentityState == [i \in Byte |-> i]

\* One round of init's key-scheduling loop with the key byte left out of
\* the accumulator (a plausible slip).
KeyRoundNoKey(acc, k, i) ==
    LET j == WrappingAdd(acc.index_j, acc.state[i])
    IN  [state |-> Swap(acc.state, i, j), index_j |-> j]

\* Round i of init's key-scheduling loop, acc holding the loop's locals
\* state and index_j.
KeyRound(acc, k, i) ==
    LET j == WrappingAdd(WrappingAdd(acc.index_j, acc.state[i]),
                         k[(i % Len(k)) + 1])
    IN  [state |-> Swap(acc.state, i, j), index_j |-> j]

\* Rounds lo..hi-1 of the key-scheduling loop, in order.  The range is
\* halved, and the first half's result looked at before the second half
\* starts, only to keep the evaluation shallow.
RECURSIVE KeyRounds(_, _, _, _)
KeyRounds(acc, k, lo, hi) ==
    IF hi <= lo THEN acc
    ELSE IF hi = lo + 1 THEN KeyRound(acc, k, lo)
    ELSE LET mid  == (lo + hi) \div 2
             left == KeyRounds(acc, k, lo, mid)
         IN  IF left.index_j \in Byte THEN KeyRounds(left, k, mid, hi) ELSE left

\* `for i in 0..256` of init, from the identity state and index_j = 0.
KeySchedule(k) ==
    KeyRounds([state |-> IdentityState, index_j |-> 0], k, 0, 256).state

\* RC4::init(&mut self, key): every field of self is overwritten.
RC4Init(self, k) ==
    [state |-> KeySchedule(k), index_i |-> 0, index_j |-> 0]

\* RC4::new(key)
RC4New(k) == RC4Init(ZeroEngine, k)

\* One iteration of process's loop whose index_j update also mixes in the
\* input byte (a plausible slip: the state would depend on the content).
ProcessByteMixing(self, byte) ==
    LET i  == WrappingAdd(self.index_i, 1)
        j  == WrappingAdd(WrappingAdd(self.index_j, self.state[i]), byte)
        st == Swap(self.state, i, j)
        k  == st[WrappingAdd(st[i], st[j])]
    IN  [rc4  |-> [state |-> st, index_i |-> i, index_j |-> j],
         byte |-> Xor(byte, k)]

\* One iteration of process's loop: the engine after it and the byte written.
ProcessByte(self, byte) ==
    LET i  == WrappingAdd(self.index_i, 1)
        j  == WrappingAdd(self.index_j, self.state[i])
        st == Swap(self.state, i, j)
        k  == st[WrappingAdd(st[i], st[j])]
    IN  [rc4  |-> [state |-> st, index_i |-> i, index_j |-> j],
         byte |-> Xor(byte, k)]

\* The iterations of process's loop over bytes lo+1..hi of buf, in order,
\* acc holding the engine and the bytes written so far.  The range is
\* halved, and the first half's result looked at before the second half
\* starts, only to keep the evaluation shallow.
RECURSIVE ProcessRange(_, _, _, _)
ProcessRange(acc, buf, lo, hi) ==
    IF hi <= lo THEN acc
    ELSE IF hi = lo + 1
         THEN LET r == ProcessByte(acc.rc4, buf[hi])
              IN  [rc4 |-> r.rc4, data |-> Append(acc.data, r.byte)]
    ELSE LET mid  == (lo + hi) \div 2
             left == ProcessRange(acc, buf, lo, mid)
         IN  IF Len(left.data) >= 0 THEN ProcessRange(left, buf, mid, hi) ELSE left

\* process that rewinds the cursors at the start of each call (a plausible
\* slip: each call would restart instead of continuing).
ProcessRewinding(self, buf) ==
    ProcessRange([rc4 |-> [self EXCEPT !.index_i = 0, !.index_j = 0], data |-> <<>>],
                 buf, 0, Len(buf))

\* RC4::process(&mut self, data): the engine after the call and the buffer
\* as the call leaves it.
Process(self, buf) == ProcessRange([rc4 |-> self, data |-> <<>>], buf, 0, Len(buf))

-----------------------------------------------------------------------------
(* The engine scenarios: the inputs and the calls of the tests of rc4.rs.  *)

\* Every buffer over Bytes of length at most n.
SeqsUpTo(n) == UNION {[1..m -> Bytes] : m \in 0..n}

\* n copies of byte b (vec![b; n]).
Fill(b, n) == [i \in 1..n |-> b]

\* test_edge_cases: short_key
ShortKey == <<66>>

\* test_known_vectors: key
RfcKey == <<1, 2, 3, 4, 5, 6, 7, 8, 9, 10, 11, 12, 13, 14, 15, 16>>

\* test_known_vectors: expected
RfcExpected ==
    <<154, 199, 204, 154, 96, 157, 30, 247, 178, 147, 40, 153, 205, 228, 27, 151>>

\* test_state_consistency: key = b"ConsistencyKey"
ConsistencyKey ==
    <<67, 111, 110, 115, 105, 115, 116, 101, 110, 99, 121, 75, 101, 121>>

\* A key of the greatest length the specification names, 256 bytes.
LongKey == [i \in 1..256 |-> (7 * i + 3) % 256]

Keys == {ShortKey, RfcKey, LongKey}

\* test_state_consistency: data = [0x00; 256], one full round of index_i.
RoundLen == 256

\* The (key, buffer) pairs a scenario starts from.
Inputs ==
    (Keys \X SeqsUpTo(MaxLen))
        \cup {<<RfcKey, Fill(0, Len(RfcKey))>>, <<ConsistencyKey, Fill(0, RoundLen)>>}

\* The lengths of the next chunk, rem bytes being left: any length on an
\* enumerated buffer; nothing, half or all of the rest on a long one.
ChunkLens(rem) ==
    IF rem <= MaxLen THEN 0..rem ELSE {0, rem \div 2, rem}

\* A result slot before the call that fills it.
NoResult == [done |-> FALSE, rc4 |-> ZeroEngine, data |-> <<>>]

NoSkip == [stage |-> "none", n |-> 0, junk |-> <<>>, rc4 |-> ZeroEngine, data |-> <<>>]

InitEngines ==
    /\ \E inp \in Inputs : key = inp[1] /\ data = inp[2]
    /\ rc4 = RC4New(key)
    /\ pos = 0
    /\ out = <<>>
    /\ calls = 0
    /\ full = NoResult
    /\ dec = NoResult
    /\ skip = NoSkip

\* rc4.process(&mut chunk) on the live engine, chunk being the next n bytes.
ProcessChunk(n) ==
    /\ calls < MaxCalls
    /\ n \in ChunkLens(Len(data) - pos)
    /\ LET r == Process(rc4, SubSeq(data, pos + 1, pos + n))
       IN  /\ rc4' = r.rc4
           /\ out' = out \o r.data
    /\ pos' = pos + n
    /\ calls' = calls + 1
    /\ UNCHANGED <<key, data, full, dec, skip, headerVars, hookVars>>

\* RC4::new(key).process(&mut whole): one call over the whole of B.
ProcessWhole ==
    /\ ~full.done
    /\ LET r == Process(RC4New(key), data)
       IN  full' = [done |-> TRUE, rc4 |-> r.rc4, data |-> r.data]
    /\ UNCHANGED <<key, data, rc4, pos, out, calls, dec, skip, headerVars, hookVars>>

\* rc4.init(k) on the live engine, which then starts over on B under k.
Reinit(k) ==
    /\ k \in Keys
    /\ rc4' = RC4Init(rc4, k)
    /\ key' = k
    /\ pos' = 0
    /\ out' = <<>>
    /\ calls' = 0
    /\ full' = NoResult
    /\ UNCHANGED <<data, dec, skip, headerVars, hookVars>>

\* RC4::new(key).process(&mut ciphertext): the second pass of
\* test_encryption_decryption.
DecryptWhole ==
    /\ full.done
    /\ ~dec.done
    /\ LET r == Process(RC4New(key), full.data)
       IN  dec' = [done |-> TRUE, rc4 |-> r.rc4, data |-> r.data]
    /\ UNCHANGED <<key, data, rc4, pos, out, calls, full, skip, headerVars, hookVars>>

\* Where a buffer of length len is split for the skip.
SplitPoints(len) == {n \in 0..len : n <= MaxLen \/ n = len \div 2 \/ n = len}

\* The disposable buffers of n bytes: zeros, another placeholder byte, the
\* ciphertext prefix (test_decrypt_partway) and the plaintext prefix.
SkipBuffers(n) ==
    {Fill(0, n), Fill(255, n), SubSeq(full.data, 1, n), SubSeq(data, 1, n)}

\* RC4::new(key).process(&mut skip_buffer): skip n keystream bytes.
SkipAhead(n) ==
    /\ full.done
    /\ skip.stage = "none"
    /\ n \in SplitPoints(Len(data))
    /\ \E junk \in SkipBuffers(n) :
           skip' = [stage |-> "skipped", n |-> n, junk |-> junk,
                    rc4 |-> Process(RC4New(key), junk).rc4, data |-> <<>>]
    /\ UNCHANGED <<key, data, rc4, pos, out, calls, full, dec, headerVars, hookVars>>

\* process(&mut second_half_cipher) on the engine that skipped.
DecryptSuffix ==
    /\ skip.stage = "skipped"
    /\ LET r == Process(skip.rc4, SubSeq(full.data, skip.n + 1, Len(full.data)))
       IN  skip' = [skip EXCEPT !.stage = "done", !.rc4 = r.rc4, !.data = r.data]
    /\ UNCHANGED <<key, data, rc4, pos, out, calls, full, dec, headerVars, hookVars>>

-----------------------------------------------------------------------------
(* The superblock decoder and decrypt_header (src/src/main.rs).            *)
(*                                                                         *)
(* A u16 is an integer.  A u32 is a record [lo, hi] and a u64 a sequence   *)
(* of four 16-bit limbs, least significant first: their values exceed the  *)
(* integers TLC computes with.                                             *)

\* u16 read little-endian at byte offset off (binrw, #[brw(little)]).
U16At(buf, off) == buf[off + 1] + 256 * buf[off + 2]

\* u32 read little-endian at byte offset off.
U32At(buf, off) == [lo |-> U16At(buf, off), hi |-> U16At(buf, off + 2)]

\* u64 read little-endian at byte offset off.
U64At(buf, off) == [l \in 1..4 |-> U16At(buf, off + 2 * (l - 1))]

\* 0xFFFFFFFFFFFFFFFF
U64Max == [l \in 1..4 |-> 65535]

U64Zero == [l \in 1..4 |-> 0]

\* as_optional with the sentinel its comment names, zero (a plausible slip).
AsOptionalZeroIsNone(buf, off) ==
    LET value == U64At(buf, off)
    IN  IF value = U64Zero THEN [some |-> FALSE, value |-> U64Zero]
        ELSE [some |-> TRUE, value |-> value]

\* as_optional: None is [some |-> FALSE], Some(v) is [some |-> TRUE, value |-> v].
AsOptional(buf, off) ==
    LET value == U64At(buf, off)
    IN  IF value = U64Max THEN [some |-> FALSE, value |-> U64Zero]
        ELSE [some |-> TRUE, value |-> value]

\* as_datetime: DateTime::from_timestamp accepts every u32 number of
\* seconds, so the parser never fails here; the record keeps the seconds
\* (the calendar rendering is not modelled).
AsDatetime(buf, off) == U32At(buf, off)

\* The twelve constants of SuperBlockFlags.
NamedFlags == {1, 2, 4, 8, 16, 32, 64, 128, 256, 512, 1024, 2048}

\* Bit b (a power of two) of v.
HasBit(v, b) == (v \div b) % 2 = 1

\* Flags::from_bits_retain, which keeps every bit (a plausible slip).
FromBitsRetain(bits) == bits

\* Flags::from_bits_truncate: the bits that are named flags, the rest dropped.
FromBitsTruncate(bits) ==
    LET set == {b \in NamedFlags : HasBit(bits, b)}
        RECURSIVE Sum(_)
        Sum(S) == IF S = {} THEN 0
                  ELSE LET b == CHOOSE x \in S : TRUE IN b + Sum(S \ {b})
    IN  Sum(set)

\* SuperBlockFlags::parse
ParseFlags(buf, off) == FromBitsTruncate(U16At(buf, off))

\* The number of bits of v: 0 for 0, else floor(log2 v) + 1.
RECURSIVE BitLen(_)
BitLen(v) == IF v = 0 THEN 0 ELSE 1 + BitLen(v \div 2)

RECURSIVE Pow2(_)
Pow2(n) == IF n = 0 THEN 1 ELSE 2 * Pow2(n - 1)

\* `block_size as f32`: zero, or mant * 2^(exp - 23) with mant in
\* [2^23, 2^24), rounded to nearest, ties to even.
CastF32(x) ==
    IF x.hi = 0 /\ x.lo = 0 THEN [zero |-> TRUE, mant |-> 0, exp |-> 0]
    ELSE LET k == IF x.hi > 0 THEN 15 + BitLen(x.hi) ELSE BitLen(x.lo) - 1
         IN  IF k <= 23
             THEN [zero |-> FALSE, mant |-> (x.hi * 65536 + x.lo) * Pow2(23 - k),
                   exp |-> k]
             ELSE LET s    == k - 23
                      q    == x.hi * Pow2(16 - s) + (x.lo \div Pow2(s))
                      r    == x.lo % Pow2(s)
                      half == Pow2(s - 1)
                      m    == IF r > half \/ (r = half /\ q % 2 = 1)
                              THEN q + 1 ELSE q
                  IN  IF m = Pow2(24)
                      THEN [zero |-> FALSE, mant |-> Pow2(23), exp |-> k + 1]
                      ELSE [zero |-> FALSE, mant |-> m, exp |-> k]

\* The least 24-bit mantissa m with m / 2^23 >= sqrt(2): from there on
\* log2 of the float is at least exp + 1/2 and rounds up.
Sqrt2Mantissa == 11863284

\* `.log(2.0).round() as u16` of an f32: the logarithm of zero is -inf,
\* which the cast saturates to 0.  (Within a few units of Sqrt2Mantissa the
\* rounding errors of ln and of the division may put the f32 result on
\* either side of the half; no power of two is near it.)
RoundLog2(f) ==
    IF f.zero THEN 0
    ELSE IF f.mant >= Sqrt2Mantissa THEN f.exp + 1 ELSE f.exp

\* u32::is_power_of_two
IsPowerOfTwo(x) ==
    \/ x.hi = 0 /\ x.lo \in {Pow2(n) : n \in 0..15}
    \/ x.lo = 0 /\ x.hi \in {Pow2(n) : n \in 0..15}

\* block_size >= 4096 && block_size <= 1048576
BlockSizeInRange(x) ==
    /\ x.hi > 0 \/ x.lo >= 4096
    /\ x.hi < 16 \/ (x.hi = 16 /\ x.lo = 0)

\* The struct's assertions without the block_log one (a plausible slip).
SuperBlockAssertsNoLog(sb) ==
    /\ sb.version_major = 4
    /\ sb.version_minor = 0
    /\ IsPowerOfTwo(sb.block_size)
    /\ BlockSizeInRange(sb.block_size)

\* The #[br(assert(...))] attributes of SuperBlock, checked once every field
\* is read.
SuperBlockAsserts(sb) ==
    /\ sb.version_major = 4
    /\ sb.version_minor = 0
    /\ RoundLog2(CastF32(sb.block_size)) = sb.block_log
    /\ IsPowerOfTwo(sb.block_size)
    /\ BlockSizeInRange(sb.block_size)

\* b"hsqs"
MagicHsqs == <<104, 115, 113, 115>>

\* b"sqsh"
MagicSqsh == <<115, 113, 115, 104>>

\* The fields of SuperBlock, read in order from a buffer of 96 bytes.
SuperBlockFields(buf) ==
    [inode_count           |-> U32At(buf, 4),
     mod_time              |-> AsDatetime(buf, 8),
     block_size            |-> U32At(buf, 12),
     frag_count            |-> U32At(buf, 16),
     compressor            |-> U16At(buf, 20),
     block_log             |-> U16At(buf, 22),
     flags                 |-> ParseFlags(buf, 24),
     id_count              |-> U16At(buf, 26),
     version_major         |-> U16At(buf, 28),
     version_minor         |-> U16At(buf, 30),
     root_inode            |-> U64At(buf, 32),
     bytes_used            |-> U64At(buf, 40),
     id_table_start        |-> U64At(buf, 48),
     xattr_id_table_start  |-> AsOptional(buf, 56),
     inode_table_start     |-> U64At(buf, 64),
     directory_table_start |-> U64At(buf, 72),
     fragment_table_start  |-> AsOptional(buf, 80),
     export_table_start    |-> AsOptional(buf, 88)]

\* The size of the fields of SuperBlock, magic included.
HeaderLen == 96

\* SuperBlock::read on a cursor over buf: the magic, the fields, then the
\* assertions; a buffer that ends before a read does is an Io error.
SuperBlockRead(buf) ==
    IF Len(buf) < 4 THEN [tag |-> "err", why |-> "Io"]
    ELSE IF SubSeq(buf, 1, 4) # MagicHsqs THEN [tag |-> "err", why |-> "BadMagic"]
    ELSE IF Len(buf) < HeaderLen THEN [tag |-> "err", why |-> "Io"]
    ELSE LET sb == SuperBlockFields(buf)
         IN  IF SuperBlockAsserts(sb) THEN [tag |-> "ok", sb |-> sb]
             ELSE [tag |-> "err", why |-> "AssertFail"]

\* validate_squashfs_header: true, false, or the panic of data[28..=31]
\* read on a buffer of 28 to 31 bytes.
ValidateSquashfsHeader(buf) ==
    IF Len(buf) < 4 THEN "false"
    ELSE IF SubSeq(buf, 1, 4) = MagicHsqs \/ SubSeq(buf, 1, 4) = MagicSqsh
         THEN IF Len(buf) >= 28 /\ Len(buf) < 32 THEN "panic" ELSE "true"
    ELSE "false"

\* The output file before decrypt_header creates it.
NoFile == [written |-> FALSE, bytes |-> <<>>]

\* decrypt_header(input_file, output_file, key) on a readable input file
\* holding `file`: how the call ends and what it leaves in the output file.
DecryptHeaderOutcome(file, k) ==
    IF Len(file) < HeaderLen
    THEN [res |-> [tag |-> "panic", why |-> "buffer[..96]"], out |-> NoFile]
    ELSE LET header_data == Process(RC4New(k), SubSeq(file, 1, HeaderLen)).data
             valid       == ValidateSquashfsHeader(header_data)
             read        == SuperBlockRead(header_data)
         IN  IF valid = "panic"
             THEN [res |-> [tag |-> "panic", why |-> "data[28]"], out |-> NoFile]
             ELSE IF valid = "false"
             THEN [res |-> [tag |-> "err", why |-> "NotSquashFS"], out |-> NoFile]
             ELSE IF read.tag = "err"
             THEN [res |-> [tag |-> "err", why |-> read.why], out |-> NoFile]
             ELSE [res |-> read, out |-> [written |-> TRUE, bytes |-> header_data]]

-----------------------------------------------------------------------------
(* The input containers of decrypt_header: a 96-byte header laid out as    *)
(* SuperBlock reads it, then enciphered under the key.                     *)

Le16(v) == <<v % 256, v \div 256>>

Le32(x) == Le16(x.lo) \o Le16(x.hi)

Le64(v) == Le16(v[1]) \o Le16(v[2]) \o Le16(v[3]) \o Le16(v[4])

\* 2^n as a u32, n in 0..31.
U32Pow2(n) ==
    IF n < 16 THEN [lo |-> Pow2(n), hi |-> 0] ELSE [lo |-> 0, hi |-> Pow2(n - 16)]

\* The header bytes of the fields f, in the order and widths of SuperBlock;
\* f.ptrs are the six table pointers in that order.
HeaderBytes(f) ==
    f.magic \o Le32(f.inode_count) \o Le32(f.mod_time) \o Le32(f.block_size)
        \o Le32(f.frag_count) \o Le16(f.compressor) \o Le16(f.block_log)
        \o Le16(f.flags) \o Le16(f.id_count) \o Le16(f.version_major)
        \o Le16(f.version_minor) \o Le64(f.root_inode) \o Le64(f.bytes_used)
        \o Le64(f.ptrs[1]) \o Le64(f.ptrs[2]) \o Le64(f.ptrs[3])
        \o Le64(f.ptrs[4]) \o Le64(f.ptrs[5]) \o Le64(f.ptrs[6])

\* 0x7FFFFFFFFFFFFFFF: all ones but the top bit.
U64AlmostMax == <<65535, 65535, 65535, 32767>>

\* A well-formed header: block size 131072, block_log 17, version 4.0, no
\* xattr table.
Canonical ==
    [magic         |-> MagicHsqs,
     inode_count   |-> [lo |-> 1234, hi |-> 0],
     mod_time      |-> [lo |-> 65535, hi |-> 65535],
     block_size    |-> U32Pow2(17),
     frag_count    |-> [lo |-> 0, hi |-> 1],
     compressor    |-> 1,
     block_log     |-> 17,
     flags         |-> 448,
     id_count      |-> 2,
     version_major |-> 4,
     version_minor |-> 0,
     root_inode    |-> <<96, 0, 1, 0>>,
     bytes_used    |-> <<0, 4096, 0, 0>>,
     ptrs          |-> <<U64AlmostMax, U64Max, <<96, 0, 0, 0>>, <<0, 1, 0, 0>>,
                         <<0, 2, 0, 0>>, U64Max>>]

Magics == {MagicHsqs, MagicSqsh, <<104, 115, 113, 116>>}

\* 0, 2048, 4096, 4097, 131072, 196608, 1048576, 2097152, 2^31, 2^32 - 1
BlockSizes ==
    {[lo |-> 0, hi |-> 0], U32Pow2(11), U32Pow2(12), [lo |-> 4097, hi |-> 0],
     U32Pow2(17), [lo |-> 0, hi |-> 3], U32Pow2(20), U32Pow2(21), U32Pow2(31),
     [lo |-> 65535, hi |-> 65535]}

BlockLogs == {0, 11, 12, 17, 18, 20, 21, 31, 32}

Versions == {<<4, 0>>, <<4, 1>>, <<3, 0>>, <<5, 0>>}

FlagValues == {0, 1, 2048, 4095, 4096, 8192, 16384, 32768, 61440, 65535, 4660}

PtrValues == {U64Zero, U64Max, U64AlmostMax}

\* Headers that vary what the decoder validates.
ValidationInputs ==
    {[Canonical EXCEPT !.magic = m, !.block_size = bs, !.block_log = bl,
                       !.version_major = v[1], !.version_minor = v[2]] :
        m \in Magics, bs \in BlockSizes, bl \in BlockLogs, v \in Versions}

\* Headers that vary the flags, on a well-formed and on an ill-formed header.
FlagInputs ==
    {[Canonical EXCEPT !.flags = fl, !.version_minor = vm] :
        fl \in FlagValues, vm \in {0, 1}}

\* Headers that vary the six table pointers.
PointerInputs == {[Canonical EXCEPT !.ptrs = p] : p \in [1..6 -> PtrValues]}

HeaderInputs == ValidationInputs \cup FlagInputs \cup PointerInputs

\* The lengths of the input file: the header alone, and for the canonical
\* header also a file cut short and a file with data after the header.
FileLens(f) ==
    IF f = Canonical THEN {0, 3, 4, 28, 31, 95, HeaderLen, HeaderLen + 4}
    ELSE {HeaderLen}

\* The keys a container is produced and decrypted under.
HeaderKeys(f) == IF f = Canonical THEN {RfcKey, ShortKey} ELSE {RfcKey}

\* The container of n bytes produced from the fields f under the key k.
Container(f, k, n) ==
    LET whole == Process(RC4New(k), HeaderBytes(f)).data \o <<1, 2, 3, 4>>
    IN  SubSeq(whole, 1, n)

NoHeader ==
    [magic |-> <<>>, inode_count |-> [lo |-> 0, hi |-> 0],
     mod_time |-> [lo |-> 0, hi |-> 0], block_size |-> [lo |-> 0, hi |-> 0],
     frag_count |-> [lo |-> 0, hi |-> 0], compressor |-> 0, block_log |-> 0,
     flags |-> 0, id_count |-> 0, version_major |-> 0, version_minor |-> 0,
     root_inode |-> U64Zero, bytes_used |-> U64Zero,
     ptrs |-> [i \in 1..6 |-> U64Zero]]

IdleEngines ==
    /\ key = ShortKey
    /\ data = <<>>
    /\ rc4 = ZeroEngine
    /\ pos = 0
    /\ out = <<>>
    /\ calls = 0
    /\ full = NoResult
    /\ dec = NoResult
    /\ skip = NoSkip

IdleHeader ==
    /\ hfields = NoHeader
    /\ hkey = ShortKey
    /\ hfile = <<>>
    /\ hres = [tag |-> "none"]
    /\ hout = NoFile

InitHeader ==
    /\ hfields \in HeaderInputs
    /\ hkey \in HeaderKeys(hfields)
    /\ \E n \in FileLens(hfields) : hfile = Container(hfields, hkey, n)
    /\ hres = [tag |-> "none"]
    /\ hout = NoFile

\* decrypt_header(input_file, output_file, &key)
DecryptHeader ==
    /\ hres.tag = "none"
    /\ LET o == DecryptHeaderOutcome(hfile, hkey)
       IN  /\ hres' = o.res
           /\ hout' = o.out
    /\ UNCHANGED <<hfields, hkey, hfile, engineVars, hookVars>>

-----------------------------------------------------------------------------
(* The hooks (src/src/transformer.rs, src/src/compressor.rs).              *)

\* The 16-byte keys the transformers and compressors are made with.
HookKeys == {RfcKey, Fill(0, 16)}

\* The buffers the hooks are called on: runs of one byte value.
HookBuffers == {Fill(b, n) : b \in Bytes, n \in 0..MaxLen}

\* CustomTransformer::from that does not seed the engine first (a plausible
\* slip: the keystream would go on from where the last call left it).
TransformerFromNoInit(shared, k, buf) == Process(shared, buf)

\* CustomTransformer::from(&self, buffer) on the shared engine: the engine
\* and the buffer as the call leaves them.
TransformerFrom(shared, k, buf) == Process(RC4Init(shared, k), buf)

\* CustomTransformer::reset(&self) on the shared engine.
TransformerReset(shared, k) == RC4Init(shared, k)

\* The bytes CustomCompressor::decompress hands to the gzip decompressor:
\* the block deciphered by an engine of the call's own.
DecompressDeciphered(k, bytes) == Process(RC4New(k), bytes).data

NoCall == [op |-> "none", key |-> <<>>, input |-> <<>>, output |-> <<>>, pre_i |-> 0]

\* transformer.from(&mut buffer), the transformer holding key k.
From(k, buf) ==
    /\ LET r == TransformerFrom(RC4, k, buf)
       IN  /\ RC4' = r.rc4
           /\ hcall' = [op |-> "from", key |-> k, input |-> buf,
                        output |-> r.data, pre_i |-> RC4.index_i]
    /\ UNCHANGED <<threads, engineVars, headerVars>>

\* transformer.reset(), the transformer holding key k.
Reset(k) ==
    /\ RC4' = TransformerReset(RC4, k)
    /\ hcall' = [op |-> "reset", key |-> k, input |-> <<>>, output |-> <<>>,
                 pre_i |-> RC4.index_i]
    /\ UNCHANGED <<threads, engineVars, headerVars>>

\* compressor.decompress(bytes, out, _), the compressor holding key k, up
\* to the call of the gzip decompressor.
Decompress(k, bytes) ==
    /\ hcall' = [op |-> "decompress", key |-> k, input |-> bytes,
                 output |-> DecompressDeciphered(k, bytes), pre_i |-> RC4.index_i]
    /\ UNCHANGED <<RC4, threads, engineVars, headerVars>>

(* The hooks called from worker threads.  The static engine is read and    *)
(* written without synchronisation, so the calls interleave; init as a     *)
(* whole and each iteration of process's loop are taken as one step (finer *)
(* interleavings only add behaviours).                                     *)

Threads == {1, 2}

ThreadBuffers == {<<0, 0>>, <<255>>}

IdleThread ==
    [pc |-> "idle", op |-> "none", key |-> <<>>, buf |-> <<>>, pos |-> 0,
     out |-> <<>>, own |-> ZeroEngine]

\* Thread t enters from (on the shared engine) or decompress (on its own).
Invoke(t, op, k, buf) ==
    /\ threads[t].pc = "idle"
    /\ threads' = [threads EXCEPT ![t] =
           [IdleThread EXCEPT !.pc = "init", !.op = op, !.key = k, !.buf = buf]]
    /\ UNCHANGED <<RC4, hcall, engineVars, headerVars>>

\* RC4.init(&self.key) in from; RC4::new(&self.key) in decompress.
HookInit(t) ==
    /\ threads[t].pc = "init"
    /\ IF threads[t].op = "from"
       THEN /\ RC4' = RC4Init(RC4, threads[t].key)
            /\ threads' = [threads EXCEPT ![t].pc = "process"]
       ELSE /\ RC4' = RC4
            /\ threads' = [threads EXCEPT ![t].pc = "process",
                                          ![t].own = RC4New(threads[t].key)]
    /\ UNCHANGED <<hcall, engineVars, headerVars>>

\* One iteration of process's loop, on the engine the hook uses.
HookByte(t) ==
    /\ threads[t].pc = "process"
    /\ threads[t].pos < Len(threads[t].buf)
    /\ LET th == threads[t]
           r  == ProcessByte(IF th.op = "from" THEN RC4 ELSE th.own,
                             th.buf[th.pos + 1])
       IN  /\ RC4' = IF th.op = "from" THEN r.rc4 ELSE RC4
           /\ threads' = [threads EXCEPT
                  ![t].pos = th.pos + 1,
                  ![t].out = Append(th.out, r.byte),
                  ![t].own = IF th.op = "from" THEN th.own ELSE r.rc4]
    /\ UNCHANGED <<hcall, engineVars, headerVars>>

\* The hook returns Ok(()).
HookReturn(t) ==
    /\ threads[t].pc = "process"
    /\ threads[t].pos = Len(threads[t].buf)
    /\ threads' = [threads EXCEPT ![t].pc = "done"]
    /\ UNCHANGED <<RC4, hcall, engineVars, headerVars>>

IdleHooks ==
    /\ RC4 = ZeroEngine
    /\ hcall = NoCall
    /\ threads = [t \in Threads |-> IdleThread]

-----------------------------------------------------------------------------
(* The specifications.                                                     *)

Init == InitEngines /\ IdleHeader /\ IdleHooks

Next ==
    \/ \E n \in 0..RoundLen : ProcessChunk(n)
    \/ ProcessWhole
    \/ \E k \in Keys : Reinit(k)

\* The live engine fed in chunks, beside one call over the whole buffer.
Spec == Init /\ [][Next]_vars

NextRoundTrip ==
    \/ ProcessWhole
    \/ DecryptWhole
    \/ \E n \in 0..RoundLen : SkipAhead(n)
    \/ DecryptSuffix

\* Encrypt, then decrypt whole or decrypt a suffix after a skip.
SpecRoundTrip == Init /\ [][NextRoundTrip]_vars

InitHeaderSpec == IdleEngines /\ InitHeader /\ IdleHooks

NextHeader == DecryptHeader

\* decrypt_header on every input container.
SpecHeader == InitHeaderSpec /\ [][NextHeader]_vars

InitHooks == IdleEngines /\ IdleHeader /\ IdleHooks

NextHooks ==
    \/ \E k \in HookKeys, buf \in HookBuffers : From(k, buf)
    \/ \E k \in HookKeys : Reset(k)
    \/ \E k \in HookKeys, bytes \in HookBuffers : Decompress(k, bytes)

\* The hooks called one after the other, in any order.
SpecHooks == InitHooks /\ [][NextHooks]_vars

NextThreads ==
    \/ \E t \in Threads, op \in {"from", "decompress"}, k \in HookKeys,
          buf \in ThreadBuffers : Invoke(t, op, k, buf)
    \/ \E t \in Threads : HookInit(t)
    \/ \E t \in Threads : HookByte(t)
    \/ \E t \in Threads : HookReturn(t)

\* The hooks called from two worker threads at once.
SpecThreads == InitHooks /\ [][NextThreads]_vars

-----------------------------------------------------------------------------
(* Properties of the engine.                                               *)

\* C1. Chunking invariance of process: whatever contiguous chunks (empty
\* ones included) the live engine was fed B in, its concatenated output is
\* the prefix of what one call over the whole of B on another engine with
\* the same key yields (a further call continues the keystream, it never
\* restarts it), and once B is consumed the outputs are equal and the two
\* engines are in the same state, cursors included.
ChunkingInvariance ==
    full.done =>
        /\ out = SubSeq(full.data, 1, pos)
        /\ pos = Len(data) => (out = full.data /\ rc4 = full.rc4)

\* B was consumed in several calls, one of them empty.
ChunkingWitness ==
    /\ full.done
    /\ Len(data) = MaxLen
    /\ pos = Len(data)
    /\ calls = MaxCalls
    /\ out = full.data
    /\ out # data

\* C2. Self-inverse: processing B with a fresh engine for the key and the
\* result with a second fresh engine for the same key returns exactly B.
SelfInverse == dec.done => dec.data = data

\* A round trip under the 256-byte key that changed the bytes on the way.
SelfInverseWitness ==
    /\ dec.done
    /\ Len(key) = 256
    /\ Len(data) = MaxLen
    /\ full.data # data
    /\ dec.data = data

\* C3. Skip-ahead equivalence: after one process call over a disposable
\* buffer of n bytes of any content, a fresh engine is in the state n bytes
\* of zeros leave it in, and processing the last len(B) - n bytes of
\* C = process(B) on it yields the last len(B) - n bytes of B and leaves the
\* engine where the engine that produced C is.
SkipAheadEquivalence ==
    /\ skip.stage = "skipped" =>
           skip.rc4 = Process(RC4New(key), Fill(0, skip.n)).rc4
    /\ skip.stage = "done" =>
           /\ skip.data = SubSeq(data, skip.n + 1, Len(data))
           /\ skip.rc4 = full.rc4

\* A suffix recovered after skipping a proper, non-empty prefix with a
\* buffer that is neither zeros nor the ciphertext prefix.
SkipAheadWitness ==
    /\ skip.stage = "done"
    /\ 0 < skip.n
    /\ skip.n < Len(data)
    /\ skip.junk # Fill(0, skip.n)
    /\ skip.junk # SubSeq(full.data, 1, skip.n)
    /\ skip.data = SubSeq(data, skip.n + 1, Len(data))
    /\ skip.data # SubSeq(full.data, skip.n + 1, Len(data))

\* C4. Known answer: the engine for the 16-byte key 01 02 .. 10, applied by
\* one process call to 16 zero bytes, yields 9a c7 cc 9a 60 9d 1e f7 b2 93
\* 28 99 cd e4 1b 97.
KnownAnswer ==
    (key = RfcKey /\ data = Fill(0, 16) /\ full.done) => full.data = RfcExpected

\* The known-answer call was made.
KnownAnswerWitness ==
    /\ key = RfcKey
    /\ data = Fill(0, 16)
    /\ full.done
    /\ full.data[1] = 154
    /\ full.data[16] = 151

IsPermutation(s) == DOMAIN s = Byte /\ {s[i] : i \in Byte} = Byte

EngineOk(e) ==
    /\ IsPermutation(e.state)
    /\ e.index_i \in Byte
    /\ e.index_j \in Byte

\* C5. Permutation invariant: after new, and after any process and init
\* calls, the state array of an engine holds every byte value exactly once
\* and both cursors lie in 0..255.
PermutationInvariant ==
    /\ EngineOk(rc4)
    /\ full.done => EngineOk(full.rc4)

\* index_i has gone once round the state array and is back at 0.
PermutationWitness ==
    /\ pos = RoundLen
    /\ rc4.index_i = 0
    /\ EngineOk(rc4)

-----------------------------------------------------------------------------
(* Properties of the header decoder.                                       *)

\* The header fields f are those of a header the format accepts.
WellFormed(f) ==
    /\ f.magic = MagicHsqs
    /\ f.version_major = 4
    /\ f.version_minor = 0
    /\ \E n \in 12..20 : f.block_size = U32Pow2(n) /\ f.block_log = n

\* C6. Header acceptance: on a 96-byte header, decoding returns a SuperBlock
\* exactly when the magic is "hsqs", the version is 4.0, block_size is a
\* power of two within [4096, 1048576] and block_log is its logarithm; in
\* every other case, the magic "sqsh" included, it returns an error and
\* does not panic.
HeaderAcceptance ==
    (hres.tag # "none" /\ Len(hfile) >= HeaderLen) =>
        /\ hres.tag \in {"ok", "err"}
        /\ hres.tag = "ok" <=> WellFormed(hfields)

\* A header well formed but for its magic "sqsh", which
\* validate_squashfs_header lets through, was rejected by the decoder.
HeaderAcceptanceWitness ==
    /\ hres.tag = "err"
    /\ hres.why = "BadMagic"
    /\ hfields.magic = MagicSqsh
    /\ WellFormed([hfields EXCEPT !.magic = MagicHsqs])

\* The original statement of C9: the decoded flag set has exactly the bits
\* of the raw 16-bit field, unknown bits included.
FlagBitsPreserved ==
    hres.tag = "ok" => hres.sb.flags = hfields.flags

\* C9, as the code has it. Unknown flag bits: whatever the 16-bit flags
\* field holds, a header that is otherwise well formed is decoded, never
\* rejected; the decoded flag set holds the twelve named bits of the field
\* (the field modulo 0x1000) and the bits 0x1000, 0x2000, 0x4000 and 0x8000
\* are dropped.
FlagBitsTruncated ==
    (hres.tag # "none" /\ Len(hfile) >= HeaderLen /\ WellFormed(hfields)) =>
        /\ hres.tag = "ok"
        /\ hres.sb.flags = hfields.flags % 4096

\* A header with every flag bit set was decoded to the twelve named flags.
FlagBitsWitness ==
    /\ hres.tag = "ok"
    /\ hfields.flags = 65535
    /\ hres.sb.flags = 4095

\* The optional pointer opt decodes the raw 64-bit value raw.
DecodesOptional(opt, raw) ==
    /\ opt.some <=> raw # U64Max
    /\ opt.some => opt.value = raw

-----------------------------------------------------------------------------
(* Properties of the hooks.                                                *)

\* C7. Per-block keystream restart: in a single-threaded run, whatever
\* from, reset and decompress calls came before, from(buffer) on a
\* transformer with key K leaves in the buffer what RC4::new(K).process
\* leaves in it, the keystream starting at position zero, and reset() leaves
\* the shared engine equal to a freshly initialised engine for K.
KeystreamRestart ==
    /\ hcall.op = "from" =>
           /\ hcall.output = Process(RC4New(hcall.key), hcall.input).data
           /\ RC4 = Process(RC4New(hcall.key), hcall.input).rc4
    /\ hcall.op = "reset" => RC4 = RC4New(hcall.key)

\* from on an engine that an earlier call had left MaxLen bytes into a
\* keystream.
KeystreamRestartWitness ==
    /\ hcall.op = "from"
    /\ hcall.pre_i = MaxLen
    /\ Len(hcall.input) = MaxLen
    /\ hcall.output # hcall.input
    /\ hcall.output = Process(RC4New(hcall.key), hcall.input).data

\* C8. Isolation of concurrent hook invocations: whatever the interleaving
\* of the threads' steps, the buffer each invocation returns is what a
\* freshly seeded engine for its key produces for its input.
HookIsolation ==
    \A t \in Threads :
        threads[t].pc = "done" =>
            threads[t].out = Process(RC4New(threads[t].key), threads[t].buf).data

\* C11. Truncated input is an error value, not an abort: for an input
\* container of any length, 0 bytes and every length under the 96 bytes of
\* the header included, and any non-empty key, decrypt_header ends by
\* returning a decoded SuperBlock or an error to its caller, never by
\* aborting, and whenever it does not return a SuperBlock no output file
\* has been written.
TruncatedIsError ==
    hres.tag # "none" =>
        /\ Len(hkey) > 0
        /\ hres.tag \in {"ok", "err"}
        /\ hres.tag # "ok" => hout = NoFile

====
